---- MODULE Spec2Model ----
(***************************************************************************)
(* A model of the N-body kernel of src/src/main.rs: Universe::new, the     *)
(* force law, step_serial, step_parallel (one task per body, in any        *)
(* schedule), the tick loop of main and tests::test_parallel_determinism.  *)
(*                                                                         *)
(* f64 values are modelled as binary floating-point numbers m * 2^e with a *)
(* mantissa of MantBits bits and round-to-nearest-even after every         *)
(* operation, so that addition is commutative but not associative, as in   *)
(* the program: the order of a summation is visible in its result.         *)
(***************************************************************************)
EXTENDS Integers, Sequences, FiniteSets, TLC

\* ---------------------------------------------------------------- bounds
\* Width of the mantissa of the modelled f64 (53 in the program).
MantBits == 8
\* Largest --count the model draws.
MaxCount == 3
\* Largest --ticks the model draws.
MaxTicks == 2

\* ------------------------------------------------------- f64 arithmetic
Abs(x) == IF x < 0 THEN -x ELSE x
Sgn(x) == IF x < 0 THEN -1 ELSE 1

RECURSIVE BitLen(_)
BitLen(n) == IF n = 0 THEN 0 ELSE 1 + BitLen(n \div 2)

\* 0.0 and the non-finite values (inf, NaN) of f64.
FZero == [m |-> 0, e |-> 0]
NonFinite == [m |-> 0, e |-> 1]
IsFinite(x) == x # NonFinite

\* The f64 nearest to the integer m scaled by 2^e (ties to even).
Round(m, e) ==
    LET a == Abs(m)
        k == BitLen(a) - MantBits
    IN  IF m = 0 THEN FZero
        ELSE IF k <= 0 THEN [m |-> m * 2^(0 - k), e |-> e + k]
        ELSE LET q    == a \div 2^k
                 r    == a % 2^k
                 half == 2^(k - 1)
                 q2   == IF r > half \/ (r = half /\ q % 2 = 1) THEN q + 1 ELSE q
             IN  IF q2 = 2^MantBits
                 THEN [m |-> Sgn(m) * 2^(MantBits - 1), e |-> e + k + 1]
                 ELSE [m |-> Sgn(m) * q2, e |-> e + k]

FNeg(a) == IF a = NonFinite THEN NonFinite ELSE [m |-> 0 - a.m, e |-> a.e]

FAdd(a, b) ==
    IF a = NonFinite \/ b = NonFinite THEN NonFinite
    ELSE IF a.m = 0 THEN b
    ELSE IF b.m = 0 THEN a
    ELSE LET hi == IF a.e >= b.e THEN a ELSE b
             lo == IF a.e >= b.e THEN b ELSE a
             d  == hi.e - lo.e
         IN  IF d > MantBits + 1 THEN hi
             ELSE Round(hi.m * 2^d + lo.m, lo.e)

FSub(a, b) == FAdd(a, FNeg(b))

FMul(a, b) ==
    IF a = NonFinite \/ b = NonFinite THEN NonFinite
    ELSE Round(a.m * b.m, a.e + b.e)

FDiv(a, b) ==
    IF a = NonFinite \/ b = NonFinite \/ b.m = 0 THEN NonFinite
    ELSE IF a.m = 0 THEN FZero
    ELSE LET n  == Abs(a.m) * 2^(MantBits + 2)
             q  == n \div Abs(b.m)
             st == IF n % Abs(b.m) = 0 THEN 0 ELSE 1
         IN  Round(Sgn(a.m) * Sgn(b.m) * (2 * q + st), a.e - b.e - MantBits - 3)

RECURSIVE ISqrtIn(_, _, _)
\* The largest r in lo..hi with r * r <= n.
ISqrtIn(n, lo, hi) ==
    IF lo = hi THEN lo
    ELSE LET mid == (lo + hi + 1) \div 2
         IN  IF mid * mid <= n THEN ISqrtIn(n, mid, hi) ELSE ISqrtIn(n, lo, mid - 1)

FSqrt(a) ==
    IF a = NonFinite \/ a.m < 0 THEN NonFinite
    ELSE IF a.m = 0 THEN FZero
    ELSE LET s  == IF (a.e - MantBits) % 2 = 0 THEN MantBits + 4 ELSE MantBits + 5
             t  == a.m * 2^s
             r  == ISqrtIn(t, 0, 2^(MantBits + 3))
             st == IF r * r = t THEN 0 ELSE 1
         IN  Round(2 * r + st, ((a.e - s) \div 2) - 1)

\* A decimal literal num/den of the source, as the f64 it denotes.
FLit(num, den) == FDiv(Round(num, 0), Round(den, 0))


\* ------------------------------------------------------------ constants
\* 1_000_000.0: the mass of the black hole, and the numerator of the orbital speed.
CentralMass == FLit(1000000, 1)
G_CONST == FLit(1, 1)
SOFTENING == FLit(1, 100000)
DT == FLit(1, 100)
\* 1e-10, the tolerance of the test's assertions.
Tolerance == FMul(FLit(1, 100000), FLit(1, 100000))

ZeroVec == <<FZero, FZero, FZero>>
Coords == 1..3
VAdd(a, b) == <<FAdd(a[1], b[1]), FAdd(a[2], b[2]), FAdd(a[3], b[3])>>

\* ------------------------------------------------- draws of the generator
\* rng.gen_range(100.0..1000.0)
DistChoices == {FLit(100, 1), FLit(700, 1)}
\* rng.gen_range(0.0..2 PI), each angle given by its cosine and sine.
AngleChoices == {[cos |-> FLit(1, 1), sin |-> FZero],
                 [cos |-> FLit(0 - 3, 5), sin |-> FLit(4, 5)]}
\* rng.gen_range(1.0..10.0)
MassChoices == {FLit(3, 1)}
Draws == [dist : DistChoices, angle : AngleChoices, mass : MassChoices]

\* --------------------------------------------------------- Universe::new
BlackHole == [id |-> 0, pos |-> ZeroVec, vel |-> ZeroVec, mass |-> CentralMass]

Star(i, d) ==
    LET velocity == FSqrt(FDiv(CentralMass, d.dist))
    IN  [id   |-> i,
         pos  |-> <<FMul(d.dist, d.angle.cos), FMul(d.dist, d.angle.sin), FZero>>,
         vel  |-> <<FMul(FNeg(velocity), d.angle.sin), FMul(velocity, d.angle.cos), FZero>>,
         mass |-> d.mass]

\* A loop `for i in 1..=count`, one star too many.
StarIdsInclusive(count) == 1..count

\* The indices of `for i in 1..count`.
StarIds(count) == 1..(count - 1)

\* rnd[i] is what the generator returns while star i is built.
NewBodies(count, rnd) ==
    [k \in 1..(1 + Cardinality(StarIds(count))) |->
        IF k = 1 THEN BlackHole ELSE Star(k - 1, rnd[k - 1])]

New(count, rnd) ==
    [bodies |-> NewBodies(count, rnd), g_const |-> G_CONST, softening |-> SOFTENING]

\* ------------------------------------------------------------- force law
\* bodies[i] of the program: the vectors are indexed from 0.
At(seq, i) == seq[i + 1]
InBounds(seq, i) == i >= 0 /\ i < Len(seq)

ForceTerm(tpos, spos, smass, g_const, softening) ==
    LET dx == FSub(spos[1], tpos[1])
        dy == FSub(spos[2], tpos[2])
        dz == FSub(spos[3], tpos[3])
        dist_sq == FAdd(FAdd(FAdd(FMul(dx, dx), FMul(dy, dy)), FMul(dz, dz)), softening)
        dist == FSqrt(dist_sq)
        f == FDiv(FMul(g_const, smass), dist_sq)
    IN  <<FDiv(FMul(f, dx), dist), FDiv(FMul(f, dy), dist), FDiv(FMul(f, dz), dist)>>

compute_force(self, target, source) ==
    ForceTerm(target.pos, source.pos, source.mass, self.g_const, self.softening)


\* ------------------------------------------------ the acceleration sums
\* The order in which a loop over n elements visits their indices.
RECURSIVE Ascending(_, _)
Ascending(from, n) == IF from >= n THEN <<>> ELSE <<from>> \o Ascending(from + 1, n)

RECURSIVE Descending(_)
Descending(n) == IF n <= 0 THEN <<>> ELSE <<n - 1>> \o Descending(n - 1)

\* An enumeration that starts at 1 and so never sees the body at index 0.
ParallelOrderFromOne(n) == Ascending(1, n)
\* The same loop run over `.rev()`.
ParallelOrderReversed(n) == Descending(n)

\* `for other in &self.bodies` of step_serial.
SerialOrder(n) == Ascending(0, n)
\* `positions.iter().enumerate()` of step_parallel.
ParallelOrder(n) == Ascending(0, n)

\* Self-exclusion decided by comparing positions instead of identities.
ParallelIncludesByPosition(body, i, pos) == body.pos # pos

\* `body.id != other.id` of step_serial.
SerialIncludes(body, other) == body.id # other.id
\* `body.id != i` of step_parallel.
ParallelIncludes(body, i, pos) == body.id # i

NoAcc == [acc |-> ZeroVec, terms |-> <<>>, panic |-> "none"]

RECURSIVE SerialSum(_, _, _, _)
\* The inner loop of step_serial over the indices order, from the k-th on.
SerialSum(self, body, order, st) ==
    IF order = <<>> THEN st
    ELSE LET other == At(self.bodies, Head(order))
         IN  SerialSum(self, body, Tail(order),
                 IF SerialIncludes(body, other)
                 THEN [st EXCEPT !.acc = VAdd(st.acc, compute_force(self, body, other)),
                                 !.terms = Append(st.terms, Head(order))]
                 ELSE st)

SerialAcc(self, body) == SerialSum(self, body, SerialOrder(Len(self.bodies)), NoAcc)

RECURSIVE ParallelSum(_, _, _, _, _, _)
\* The inner loop of a task of step_parallel; masses[i] panics out of bounds.
ParallelSum(self, body, positions, masses, order, st) ==
    IF order = <<>> \/ st.panic # "none" THEN st
    ELSE LET i == Head(order)
             pos == At(positions, i)
         IN  ParallelSum(self, body, positions, masses, Tail(order),
                 IF ~ParallelIncludes(body, i, pos) THEN st
                 ELSE IF ~InBounds(masses, i) THEN [st EXCEPT !.panic = "masses[i]"]
                 ELSE [st EXCEPT
                         !.acc = VAdd(st.acc, ForceTerm(body.pos, pos, At(masses, i),
                                                        self.g_const, self.softening)),
                         !.terms = Append(st.terms, i)])

ParallelAcc(self, body, positions, masses) ==
    ParallelSum(self, body, positions, masses, ParallelOrder(Len(positions)), NoAcc)

\* The snapshots step_parallel takes on entry.
Positions(bodies) == [k \in 1..Len(bodies) |-> bodies[k].pos]
Masses(bodies) == [k \in 1..Len(bodies) |-> bodies[k].mass]

\* ------------------------------------------------------ the Euler update
\* x += rate * dt on the three coordinates.
Advance(x, rate, dt) ==
    <<FAdd(x[1], FMul(rate[1], dt)),
      FAdd(x[2], FMul(rate[2], dt)),
      FAdd(x[3], FMul(rate[3], dt))>>

\* Explicit Euler: the position advanced with the velocity of before the tick.
IntegrateExplicit(body, acc, dt) ==
    [body EXCEPT !.vel = Advance(body.vel, acc, dt),
                 !.pos = Advance(body.pos, body.vel, dt)]

\* An update that rebuilds the body and loses its identity.
IntegrateRebuilt(body, acc, dt) ==
    [id |-> 0,
     pos |-> Advance(body.pos, Advance(body.vel, acc, dt), dt),
     vel |-> Advance(body.vel, acc, dt),
     mass |-> body.mass]

\* vel += acc * dt; pos += vel * dt, the six assignments of both step functions.
Integrate(body, acc, dt) ==
    LET vel == Advance(body.vel, acc, dt)
    IN  [body EXCEPT !.vel = vel, !.pos = Advance(body.pos, vel, dt)]


\* updates[i + 1]
UpdateSlotOffByOne(i) == i + 1
\* Every task adding into one shared accumulator.
AccSlotShared(k) == 0

\* updates[i] of step_serial: the slot read for the body at index i.
UpdateSlot(i) == i
\* collect() of step_parallel stores the result of the task of index k at index k.
AccSlot(k) == k
\* zip() of step_parallel pairs the body at index k with accelerations[k].
ZipPartner(k) == k


\* ----------------------------------------------------------------- state
VARIABLES
    pc,      \* where main, or the test, stands
    args,    \* the parsed command line (count, mode, ticks)
    univ,    \* the Universe values in scope, by variable name
    tick,    \* the loop variable i of main
    frame,   \* the running call of a step function, or NoFrame
    trace,   \* the step calls that have returned, in order
    panic    \* "none", or the place that panicked

vars == <<pc, args, univ, tick, frame, trace, panic>>

NoFrame == [fn |-> "none"]
Indices(seq) == 0..(Len(seq) - 1)
Min(a, b) == IF a <= b THEN a ELSE b
\* `ticks as u32`: x modulo 2^32, by its 16-bit halves.
AsU32(x) == ((x \div 65536) % 65536) * 65536 + (x % 65536)

Modes == {"Serial", "Parallel"}
StepFn(mode) == IF mode = "Parallel" THEN "step_parallel" ELSE "step_serial"

\* The frame of a call fn(&mut self, dt); step_parallel starts by copying the
\* positions and the masses.
Enter(fn, self, dt) ==
    LET bodies == univ[self].bodies
    IN  [fn |-> fn, self |-> self, dt |-> dt, entry |-> bodies, phase |-> "acc",
         positions |-> IF fn = "step_parallel" THEN Positions(bodies) ELSE <<>>,
         masses |-> IF fn = "step_parallel" THEN Masses(bodies) ELSE <<>>,
         accDone |-> {}, acc |-> <<>>, terms |-> <<>>,
         accWriters |-> [s \in Indices(bodies) |-> {}],
         updDone |-> {},
         accReaders |-> [s \in Indices(bodies) |-> {}],
         bodyWriters |-> [s \in Indices(bodies) |-> {}]]

\* The frame once the task (or iteration) k has stored r in the slot s.
Stored(k, s, r) ==
    [frame EXCEPT !.accDone = @ \cup {k},
                  !.acc = (s :> r.acc) @@ @,
                  !.terms = (s :> r.terms) @@ @,
                  !.accWriters = (s :> ((IF s \in DOMAIN @ THEN @[s] ELSE {}) \cup {k})) @@ @]

\* The frame once the task (or iteration) k has updated its body from the slot s.
Updated(k, s) ==
    [frame EXCEPT !.updDone = @ \cup {k},
                  !.accReaders = (s :> ((IF s \in DOMAIN @ THEN @[s] ELSE {}) \cup {k})) @@ @,
                  !.bodyWriters = (k :> ((IF k \in DOMAIN @ THEN @[k] ELSE {}) \cup {k})) @@ @]

Panic(site) ==
    /\ pc' = "panicked"
    /\ panic' = site
    /\ UNCHANGED <<args, univ, tick, frame, trace>>

\* ----------------------------------------------------------- step_serial
\* The map and the update fused into one loop: each body moves as soon as its
\* acceleration is known, and the bodies after it read its new position.
SerialMapInPlace ==
    /\ panic = "none" /\ frame.fn = "step_serial" /\ frame.phase = "acc"
    /\ LET self == univ[frame.self]
           k == Cardinality(frame.accDone)
           r == SerialAcc(self, At(self.bodies, k))
       IN  /\ k < Len(self.bodies)
           /\ frame' = Stored(k, k, r)
           /\ univ' = [univ EXCEPT ![frame.self].bodies[k + 1] =
                                       Integrate(@, r.acc, frame.dt)]
    /\ UNCHANGED <<pc, args, tick, trace, panic>>

\* One iteration of the map: the acceleration of the next body.
SerialMap ==
    /\ panic = "none" /\ frame.fn = "step_serial" /\ frame.phase = "acc"
    /\ LET self == univ[frame.self]
           k == Cardinality(frame.accDone)
       IN  /\ k < Len(self.bodies)
           /\ frame' = Stored(k, k, SerialAcc(self, At(self.bodies, k)))
    /\ UNCHANGED <<pc, args, univ, tick, trace, panic>>

\* collect(): `updates` is complete.
SerialCollect ==
    /\ panic = "none" /\ frame.fn = "step_serial" /\ frame.phase = "acc"
    /\ Cardinality(frame.accDone) = Len(univ[frame.self].bodies)
    /\ frame' = [frame EXCEPT !.phase = "update"]
    /\ UNCHANGED <<pc, args, univ, tick, trace, panic>>

\* One iteration of the update loop.
SerialUpdate ==
    /\ panic = "none" /\ frame.fn = "step_serial" /\ frame.phase = "update"
    /\ LET i == Cardinality(frame.updDone)
           s == UpdateSlot(i)
       IN  /\ i < Len(univ[frame.self].bodies)
           /\ IF s \notin DOMAIN frame.acc
              THEN Panic("updates[i]")
              ELSE /\ univ' = [univ EXCEPT ![frame.self].bodies[i + 1] =
                                               Integrate(@, frame.acc[s], frame.dt)]
                   /\ frame' = Updated(i, s)
                   /\ UNCHANGED <<pc, args, tick, trace, panic>>

\* --------------------------------------------------------- step_parallel
\* The task of the first par_iter for the body at index k.
ParAccTask(k) ==
    /\ panic = "none" /\ frame.fn = "step_parallel" /\ frame.phase = "acc"
    /\ k \in Indices(univ[frame.self].bodies) \ frame.accDone
    /\ LET self == univ[frame.self]
           r == ParallelAcc(self, At(self.bodies, k), frame.positions, frame.masses)
       IN  IF r.panic # "none"
           THEN Panic(r.panic)
           ELSE /\ frame' = Stored(k, AccSlot(k), r)
                /\ UNCHANGED <<pc, args, univ, tick, trace, panic>>

\* collect() returns once every task has finished.
ParCollect ==
    /\ panic = "none" /\ frame.fn = "step_parallel" /\ frame.phase = "acc"
    /\ frame.accDone = Indices(univ[frame.self].bodies)
    /\ frame' = [frame EXCEPT !.phase = "update"]
    /\ UNCHANGED <<pc, args, univ, tick, trace, panic>>

\* The pairs zip() makes: as many as the shorter of bodies and accelerations.
ZipIndices == 0..(Min(Len(univ[frame.self].bodies), Cardinality(DOMAIN frame.acc)) - 1)

\* The task of the second par_iter for the body at index k.
ParUpdateTask(k) ==
    /\ panic = "none" /\ frame.fn = "step_parallel" /\ frame.phase = "update"
    /\ k \in ZipIndices \ frame.updDone
    /\ ZipPartner(k) \in DOMAIN frame.acc
    /\ univ' = [univ EXCEPT ![frame.self].bodies[k + 1] =
                                Integrate(@, frame.acc[ZipPartner(k)], frame.dt)]
    /\ frame' = Updated(k, ZipPartner(k))
    /\ UNCHANGED <<pc, args, tick, trace, panic>>

\* --------------------------------------------------------------- returns
\* Both loops of the running step function are over.
StepOver ==
    /\ panic = "none" /\ frame.fn # "none" /\ frame.phase = "update"
    /\ frame.updDone = IF frame.fn = "step_parallel" THEN ZipIndices
                       ELSE Indices(univ[frame.self].bodies)

Returned ==
    Append(trace, [fn |-> frame.fn, self |-> frame.self, dt |-> frame.dt,
                   entry |-> frame.entry, exit |-> univ[frame.self].bodies,
                   acc |-> frame.acc, terms |-> frame.terms])

\* ------------------------------------------------------------------ main
Init ==
    /\ pc = "main"
    /\ args \in [count : 0..MaxCount, mode : Modes, ticks : 0..MaxTicks]
    /\ univ = <<>>
    /\ tick = 0
    /\ frame = NoFrame
    /\ trace = <<>>
    /\ panic = "none"

\* let mut universe = Universe::new(args.count);
MainNew ==
    /\ pc = "main"
    /\ \E rnd \in [StarIds(args.count) -> Draws] :
           univ' = [universe |-> New(args.count, rnd)]
    /\ pc' = "loop"
    /\ UNCHANGED <<args, tick, frame, trace, panic>>

\* The body of `for i in 0..args.ticks`: the call of the step function.
MainStepCall ==
    /\ pc = "loop" /\ tick < args.ticks
    /\ frame' = Enter(StepFn(args.mode), "universe", DT)
    /\ pc' = "step"
    /\ UNCHANGED <<args, univ, tick, trace, panic>>

MainStepReturn ==
    /\ pc = "step" /\ StepOver
    /\ trace' = Returned
    /\ frame' = NoFrame
    /\ tick' = tick + 1
    /\ pc' = "loop"
    /\ UNCHANGED <<args, univ, panic>>

\* let per_tick = duration / args.ticks as u32;
MainTiming ==
    /\ pc = "loop" /\ tick >= args.ticks
    /\ IF AsU32(args.ticks) = 0
       THEN Panic("duration / 0")
       ELSE /\ pc' = "report"
            /\ UNCHANGED <<args, univ, tick, frame, trace, panic>>

\* The println! lines, and the end of main.
MainReport ==
    /\ pc = "report"
    /\ pc' = "exit"
    /\ UNCHANGED <<args, univ, tick, frame, trace, panic>>

Step ==
    \/ SerialMap
    \/ SerialCollect
    \/ SerialUpdate
    \/ \E k \in 0..MaxCount : ParAccTask(k)
    \/ ParCollect
    \/ \E k \in 0..MaxCount : ParUpdateTask(k)

Next ==
    \/ MainNew
    \/ MainStepCall
    \/ Step
    \/ MainStepReturn
    \/ MainTiming
    \/ MainReport

Spec == Init /\ [][Next]_vars


\* --------------------------------------- tests::test_parallel_determinism
FAbs(a) == IF a = NonFinite THEN NonFinite ELSE [m |-> Abs(a.m), e |-> a.e]
\* a < b; a comparison with NaN is false.
FLess(a, b) == FSub(a, b) # NonFinite /\ FSub(a, b).m < 0

\* The three assertions on the body at index i.
NoDrift(s_pos, p_pos) ==
    \A c \in Coords : FLess(FAbs(FSub(s_pos[c], p_pos[c])), Tolerance)

\* The test builds Universe::new(100); the model draws the count.
InitTest ==
    /\ pc = "test"
    /\ args \in [count : 0..MaxCount]
    /\ univ = <<>>
    /\ tick = 0
    /\ frame = NoFrame
    /\ trace = <<>>
    /\ panic = "none"

\* The two Universe::new calls and the clone of the serial bodies.
TestNew ==
    /\ pc = "test"
    /\ \E rnd1 \in [StarIds(args.count) -> Draws], rnd2 \in [StarIds(args.count) -> Draws] :
           LET universe_serial == New(args.count, rnd1)
               universe_parallel == New(args.count, rnd2)
           IN  univ' = [universe_serial |-> universe_serial,
                        universe_parallel |->
                            [universe_parallel EXCEPT !.bodies = universe_serial.bodies]]
    /\ pc' = "call_serial"
    /\ UNCHANGED <<args, tick, frame, trace, panic>>

TestSerialCall ==
    /\ pc = "call_serial"
    /\ frame' = Enter("step_serial", "universe_serial", DT)
    /\ pc' = "in_serial"
    /\ UNCHANGED <<args, univ, tick, trace, panic>>

TestSerialReturn ==
    /\ pc = "in_serial" /\ StepOver
    /\ trace' = Returned
    /\ frame' = NoFrame
    /\ pc' = "call_parallel"
    /\ UNCHANGED <<args, univ, tick, panic>>

TestParallelCall ==
    /\ pc = "call_parallel"
    /\ frame' = Enter("step_parallel", "universe_parallel", DT)
    /\ pc' = "in_parallel"
    /\ UNCHANGED <<args, univ, tick, trace, panic>>

TestParallelReturn ==
    /\ pc = "in_parallel" /\ StepOver
    /\ trace' = Returned
    /\ frame' = NoFrame
    /\ pc' = "assert"
    /\ UNCHANGED <<args, univ, tick, panic>>

\* The loop of assertions over the indices of universe_serial.bodies.
TestAssert ==
    /\ pc = "assert"
    /\ LET s == univ.universe_serial.bodies
           p == univ.universe_parallel.bodies
       IN  IF \E i \in Indices(s) : ~InBounds(p, i)
           THEN Panic("universe_parallel.bodies[i]")
           ELSE IF \E i \in Indices(s) : ~NoDrift(At(s, i).pos, At(p, i).pos)
           THEN Panic("Drift detected")
           ELSE /\ pc' = "passed"
                /\ UNCHANGED <<args, univ, tick, frame, trace, panic>>

NextTest ==
    \/ TestNew
    \/ TestSerialCall
    \/ TestSerialReturn
    \/ TestParallelCall
    \/ TestParallelReturn
    \/ TestAssert
    \/ Step

SpecTest == InitTest /\ [][NextTest]_vars


\* ================================================================ claims
Active == frame.fn # "none"
\* The Universe of a state of main, once it is built.
Built == pc \notin {"main", "test"}
IdsAreIndices(bodies) == \A i \in Indices(bodies) : At(bodies, i).id = i
FiniteVec(v) == \A c \in Coords : IsFinite(v[c])
\* The universe a step function is given when it is called on `bodies`.
AsUniverse(bodies) == [bodies |-> bodies, g_const |-> FLit(1, 1), softening |-> FLit(1, 100000)]
\* The last step call that returned.
LastCall == trace[Len(trace)]
\* A step call has just returned and nothing has run since.
JustReturned == ~Active /\ trace # <<>> /\ pc \in {"loop", "call_parallel", "assert"}

\* C1: one step_serial and one step_parallel from identical bodies, g_const,
\* softening and dt leave every coordinate of every position less than 1e-10
\* apart; the two body collections are equal, and no assertion of the test fails.
C1_SerialParallelAgree ==
    /\ panic = "none"
    /\ pc \in {"assert", "passed"} =>
           LET s == univ.universe_serial.bodies
               p == univ.universe_parallel.bodies
           IN  /\ Len(s) = Len(p)
               /\ \A i \in Indices(s) : NoDrift(At(s, i).pos, At(p, i).pos)
               /\ s = p
               /\ univ.universe_serial.g_const = univ.universe_parallel.g_const
               /\ univ.universe_serial.softening = univ.universe_parallel.softening

\* C1 witness: the test passed on three bodies that both steps have moved.
C1_Witness ==
    /\ pc = "passed"
    /\ Len(univ.universe_serial.bodies) = 3
    /\ Len(trace) = 2
    /\ trace[1].fn = "step_serial" /\ trace[2].fn = "step_parallel"
    /\ trace[1].entry = trace[2].entry
    /\ \A i \in Indices(trace[2].entry) : At(trace[2].exit, i).pos # At(trace[2].entry, i).pos

\* C2: for count >= 1, Universe::new(count) returns exactly count bodies with
\* bodies[i].id = i, and body 0 at the origin, at rest, of mass 1_000_000.
C2_NewShape ==
    (pc = "loop" /\ tick = 0 /\ args.count >= 1) =>
        LET b == univ.universe.bodies
        IN  /\ Len(b) = args.count
            /\ IdsAreIndices(b)
            /\ {At(b, i).id : i \in Indices(b)} = 0..(args.count - 1)
            /\ At(b, 0).pos = <<FZero, FZero, FZero>>
            /\ At(b, 0).vel = <<FZero, FZero, FZero>>
            /\ At(b, 0).mass = FLit(1000000, 1)

\* C2 witness: new has just returned three bodies.
C2_Witness ==
    /\ pc = "loop" /\ tick = 0 /\ args.count = 3
    /\ Len(univ.universe.bodies) = 3

\* The terms summed for the body at index s of n: every other index once, s never.
EveryOtherOnce(n, s, terms) ==
    \A j \in 0..(n - 1) :
        Cardinality({q \in 1..Len(terms) : terms[q] = j}) = IF j = s THEN 0 ELSE 1

\* C3: in both step functions the acceleration of a body sums the term of every
\* other body exactly once and never its own, whatever the positions; the sole
\* body of a single-body Universe gets zero acceleration and does not move.
C3_NoSelfForce ==
    /\ Active =>
           /\ \A s \in DOMAIN frame.terms :
                  EveryOtherOnce(Len(frame.entry), s, frame.terms[s])
           /\ Len(frame.entry) = 1 =>
                  /\ \A s \in DOMAIN frame.acc : frame.acc[s] = <<FZero, FZero, FZero>>
                  /\ univ[frame.self].bodies = frame.entry
    /\ \A r \in 1..Len(trace) :
           /\ \A s \in DOMAIN trace[r].terms :
                  EveryOtherOnce(Len(trace[r].entry), s, trace[r].terms[s])
           /\ Len(trace[r].entry) = 1 => trace[r].exit = trace[r].entry

\* C3 witness: a parallel task has summed the term of another body that stands at
\* the same position as its own.
C3_Witness ==
    /\ Active /\ frame.fn = "step_parallel"
    /\ \E s \in DOMAIN frame.terms : \E j \in Indices(frame.entry) :
           /\ j # s
           /\ At(frame.entry, j).pos = At(frame.entry, s).pos
           /\ \E q \in 1..Len(frame.terms[s]) : frame.terms[s][q] = j

\* What a step may not change: the bodies' number, ids and masses.
Fixed(bodies) == [k \in 1..Len(bodies) |-> <<bodies[k].id, bodies[k].mass>>]

\* C4: through any sequence of step calls the number of bodies, every id and
\* mass, g_const and softening stay what Universe::new made them, and
\* bodies[i].id = i.
C4_OnlyPosVelChange ==
    (Built /\ pc # "panicked") =>
        \A name \in DOMAIN univ :
            /\ IdsAreIndices(univ[name].bodies)
            /\ univ[name].g_const = FLit(1, 1)
            /\ univ[name].softening = FLit(1, 100000)
            /\ (Active /\ frame.self = name) => Fixed(univ[name].bodies) = Fixed(frame.entry)
            /\ \A r \in 1..Len(trace) :
                   trace[r].self = name =>
                       /\ Fixed(trace[r].entry) = Fixed(univ[name].bodies)
                       /\ Fixed(trace[r].exit) = Fixed(univ[name].bodies)

\* C4 witness: two ticks of main have moved every one of three bodies.
C4_Witness ==
    /\ pc = "loop" /\ tick = 2 /\ Len(trace) = 2
    /\ Len(univ.universe.bodies) = 3
    /\ \A i \in Indices(univ.universe.bodies) :
           /\ At(univ.universe.bodies, i).pos # At(trace[1].entry, i).pos
           /\ At(univ.universe.bodies, i).vel # At(trace[1].entry, i).vel

\* C5: with --count 0 or 1, Universe::new returns a Universe and no step call
\* panics (no index out of bounds) or gets stuck; the state stays a single body
\* of id 0 with finite coordinates.
C5_DegenerateCounts ==
    (args.count <= 1) =>
        /\ panic \notin {"masses[i]", "updates[i]"}
        /\ Built =>
               LET b == univ.universe.bodies
               IN  /\ Len(b) = 1
                   /\ At(b, 0).id = 0
                   /\ FiniteVec(At(b, 0).pos) /\ FiniteVec(At(b, 0).vel)
        /\ (Active /\ panic = "none") => ENABLED (Step \/ MainStepReturn)

\* C5 witness: a run with --count 0 in parallel mode has finished its ticks.
C5_Witness ==
    /\ args.count = 0 /\ args.mode = "Parallel"
    /\ pc = "exit" /\ tick = args.ticks /\ Len(trace) >= 1
    /\ trace[1].fn = "step_parallel"

\* main made exactly `ticks` calls, all of the selected step function with
\* dt = 0.01, each from the state the one before left.
RunChained ==
    /\ Len(trace) = args.ticks
    /\ tick = args.ticks
    /\ ~Active
    /\ \A r \in 1..Len(trace) :
           /\ trace[r].fn = StepFn(args.mode)
           /\ trace[r].self = "universe"
           /\ trace[r].dt = FLit(1, 100)
           /\ r > 1 => trace[r].entry = trace[r - 1].exit
    /\ trace # <<>> => univ.universe.bodies = LastCall.exit

\* C6: a run of k ticks is k single step calls of the selected mode in sequence,
\* with no early exit, and main then reaches the reporting state.
C6_RunIsTicksSteps ==
    /\ pc # "panicked"
    /\ pc \in {"report", "exit"} => RunChained

\* C6 for at least one tick: the part of the claim the program keeps.
C6_PositiveTicks ==
    args.ticks >= 1 =>
        /\ pc # "panicked"
        /\ pc \in {"report", "exit"} => RunChained


\* The acceleration the step function fn computes for the body at index s when
\* every body is where `entry` has it.
AccFrom(fn, entry, s) ==
    IF fn = "step_parallel"
    THEN ParallelAcc(AsUniverse(entry), At(entry, s), Positions(entry), Masses(entry)).acc
    ELSE SerialAcc(AsUniverse(entry), At(entry, s)).acc

\* C7: within a tick of either step function no body is written before the
\* acceleration of every body is computed, the snapshot of step_parallel is the
\* state of the start of the tick, and every acceleration the tick has used is
\* the one computed from the positions and masses of the start of the tick.
C7_SnapshotDiscipline ==
    Active =>
        /\ frame.updDone # {} =>
               /\ frame.accDone = Indices(frame.entry)
               /\ DOMAIN frame.acc = Indices(frame.entry)
        /\ frame.accDone # Indices(frame.entry) => univ[frame.self].bodies = frame.entry
        /\ frame.fn = "step_parallel" =>
               /\ frame.positions = Positions(frame.entry)
               /\ frame.masses = Masses(frame.entry)
        /\ StepOver =>
               \A s \in Indices(frame.entry) :
                   frame.acc[s] = AccFrom(frame.fn, frame.entry, s)

\* C7 witness: a parallel tick on three bodies has moved the last body and not
\* yet the first.
C7_Witness ==
    /\ Active /\ frame.fn = "step_parallel" /\ Len(frame.entry) = 3
    /\ frame.updDone = {2}
    /\ At(univ[frame.self].bodies, 2).pos # At(frame.entry, 2).pos
    /\ At(univ[frame.self].bodies, 0) = At(frame.entry, 0)

\* The bodies step_parallel leaves when its tasks run one after the other.
ScheduleFree(entry, dt) ==
    [k \in 1..Len(entry) |->
        Integrate(entry[k], AccFrom("step_parallel", entry, k - 1), dt)]

\* C8: in step_parallel every acceleration task writes only the slot of its own
\* index and leaves the bodies and the snapshot alone, every update task reads
\* only the slot and writes only the body of its own index, no update task runs
\* before every acceleration task is over, and the bodies at return are the same
\* under every schedule.
C8_RaceFree ==
    /\ (Active /\ frame.fn = "step_parallel") =>
           /\ DOMAIN frame.accWriters = Indices(frame.entry)
           /\ DOMAIN frame.accReaders = Indices(frame.entry)
           /\ DOMAIN frame.bodyWriters = Indices(frame.entry)
           /\ \A s \in Indices(frame.entry) :
                  /\ frame.accWriters[s] \subseteq {s}
                  /\ frame.accReaders[s] \subseteq {s}
                  /\ frame.bodyWriters[s] \subseteq {s}
           /\ frame.positions = Positions(frame.entry)
           /\ frame.masses = Masses(frame.entry)
           /\ frame.phase = "acc" =>
                  /\ frame.updDone = {}
                  /\ univ[frame.self].bodies = frame.entry
           /\ frame.updDone # {} => frame.accDone = Indices(frame.entry)
    /\ (JustReturned /\ LastCall.fn = "step_parallel") =>
           LastCall.exit = ScheduleFree(LastCall.entry, LastCall.dt)

\* C8 witness: the tasks of a parallel tick on three bodies ran out of index
\* order in both phases, and a later tick returned.
C8_Witness ==
    /\ Active /\ frame.fn = "step_parallel" /\ Len(frame.entry) = 3
    /\ frame.phase = "update" /\ frame.updDone = {1, 2}
    /\ frame.accWriters = (0 :> {0}) @@ (1 :> {1}) @@ (2 :> {2})
    /\ Len(trace) >= 1

\* C9: per body and coordinate, a step leaves vel = old vel + acc * dt and
\* pos = old pos + (the new vel) * dt.
C9_SemiImplicitEuler ==
    \A r \in 1..Len(trace) :
        \A i \in Indices(trace[r].entry) :
            /\ i \in DOMAIN trace[r].acc
            /\ Len(trace[r].exit) = Len(trace[r].entry)
            /\ \A c \in Coords :
                   /\ At(trace[r].exit, i).vel[c] =
                          FAdd(At(trace[r].entry, i).vel[c], FMul(trace[r].acc[i][c], trace[r].dt))
                   /\ At(trace[r].exit, i).pos[c] =
                          FAdd(At(trace[r].entry, i).pos[c],
                               FMul(At(trace[r].exit, i).vel[c], trace[r].dt))

\* C9 witness: a step of each kind has returned a position that the velocity of
\* before the tick would not have given.
C9_Witness ==
    /\ Len(trace) = 2
    /\ trace[1].fn = "step_serial" /\ trace[2].fn = "step_parallel"
    /\ \A r \in 1..2 : \E i \in Indices(trace[r].entry) : \E c \in Coords :
           At(trace[r].exit, i).pos[c] #
               FAdd(At(trace[r].entry, i).pos[c],
                    FMul(At(trace[r].entry, i).vel[c], trace[r].dt))

\* The indices 0..n-1 in ascending order, s left out.
AscendingWithout(n, s) == [q \in 1..(n - 1) |-> IF q - 1 < s THEN q - 1 ELSE q]

\* C10: for every body, both step functions add the terms of the other bodies
\* in ascending index order with only the body's own index skipped, from the
\* same positions and masses, under every schedule of the parallel tasks.
C10_SameSummationOrder ==
    /\ Active =>
           /\ \A s \in DOMAIN frame.terms :
                  frame.terms[s] = AscendingWithout(Len(frame.entry), s)
           /\ frame.fn = "step_parallel" =>
                  /\ frame.positions = Positions(frame.entry)
                  /\ frame.masses = Masses(frame.entry)
                  /\ frame.entry = trace[1].entry
    /\ \A r \in 1..Len(trace) :
           \A s \in DOMAIN trace[r].terms :
               trace[r].terms[s] = AscendingWithout(Len(trace[r].entry), s)
    /\ Len(trace) = 2 =>
           /\ trace[1].entry = trace[2].entry
           /\ trace[1].terms = trace[2].terms

\* C10 witness: both steps of the test have summed two terms for each of three
\* bodies.
C10_Witness ==
    /\ Len(trace) = 2
    /\ trace[1].fn = "step_serial" /\ trace[2].fn = "step_parallel"
    /\ Len(trace[1].entry) = 3
    /\ trace[2].terms = (0 :> <<1, 2>>) @@ (1 :> <<0, 2>>) @@ (2 :> <<0, 1>>)

====
